---- MODULE Spec2Model ----
(***************************************************************************)
(* Model of decoders/xconfigdotenv/dotenv.go: Decoder.Unmarshal feeds each *)
(* key of the flat mapping to assignValue, which resolves the key against  *)
(* the destination record by longest prefix / first declared field and     *)
(* descends through pointers, records, mappings and slices.                *)
(*                                                                         *)
(* Strings are sequences of one-character strings, so that Split, Join,    *)
(* ToLower, ReplaceAll and the strconv parsers are computed, not assumed.  *)
(***************************************************************************)
EXTENDS Integers, Sequences, FiniteSets, TLC

\* Largest number of "_"-separated segments of a key of a one-key mapping.
MaxSegs == 3

\* Largest number of keys of a mapping drawn from KeyCatalogue.
MaxKeys == 2

----------------------------------------------------------------------------
\* strings, strconv

UpperChars == <<"A","B","C","D","E","F","G","H","I","J","K","L","M",
                "N","O","P","Q","R","S","T","U","V","W","X","Y","Z">>

LowerChars == <<"a","b","c","d","e","f","g","h","i","j","k","l","m",
                "n","o","p","q","r","s","t","u","v","w","x","y","z">>

DigitChars == <<"0","1","2","3","4","5","6","7","8","9">>

IndexOf(tbl, c) ==
    IF \E i \in 1..Len(tbl) : tbl[i] = c
    THEN CHOOSE i \in 1..Len(tbl) : tbl[i] = c
    ELSE 0

UpperSet == { UpperChars[i] : i \in 1..Len(UpperChars) }

\* the lower-case letter of each upper-case letter
LowerOf == [c \in UpperSet |-> LowerChars[IndexOf(UpperChars, c)]]

\* strings.ToLower
ToLower(s) ==
    [i \in 1..Len(s) |-> IF s[i] \in UpperSet THEN LowerOf[s[i]] ELSE s[i]]

IsSep(c) == c = "_"

NotSep(c) == c # "_"

\* strings.ReplaceAll(s, "_", "")
ReplaceAllSep(s) == SelectSeq(s, NotSep)

\* normalize: lower-case, then delete every "_"
normalize(s) == ReplaceAllSep(ToLower(s))

RECURSIVE Join(_)
\* strings.Join(parts, "_")
Join(parts) ==
    IF Len(parts) = 0 THEN <<>>
    ELSE IF Len(parts) = 1 THEN parts[1]
    ELSE parts[1] \o <<"_">> \o Join(Tail(parts))

RECURSIVE Split(_)
\* strings.Split(s, "_"): always at least one segment, possibly empty
Split(s) ==
    IF \A i \in 1..Len(s) : NotSep(s[i])
    THEN <<s>>
    ELSE LET i == CHOOSE k \in 1..Len(s) :
                      IsSep(s[k]) /\ \A j \in 1..(k-1) : NotSep(s[j])
         IN  <<SubSeq(s, 1, i-1)>> \o Split(SubSeq(s, i+1, Len(s)))

IsDigits(s) == Len(s) >= 1 /\ \A i \in 1..Len(s) : IndexOf(DigitChars, s[i]) # 0

RECURSIVE DigitsValue(_)
DigitsValue(s) ==
    IF Len(s) = 0 THEN 0
    ELSE 10 * DigitsValue(SubSeq(s, 1, Len(s)-1)) + (IndexOf(DigitChars, s[Len(s)]) - 1)

RECURSIVE Pow2(_)
\* 2^n, for the bit widths of the schema's integer types
Pow2(n) == IF n = 0 THEN 1 ELSE 2 * Pow2(n - 1)

\* strconv.ParseInt(s, 10, bits): optional sign, decimal digits, range check
ParseInt(s, bits) ==
    LET signed == Len(s) >= 1 /\ s[1] \in {"+", "-"}
        body   == IF signed THEN Tail(s) ELSE s
        mag    == DigitsValue(body)
        n      == IF signed /\ s[1] = "-" THEN 0 - mag ELSE mag
        half   == Pow2(bits) \div 2
    IN  IF ~IsDigits(body) THEN [ok |-> FALSE, n |-> 0]
        ELSE IF n < 0 - half \/ n > half - 1 THEN [ok |-> FALSE, n |-> 0]
        ELSE [ok |-> TRUE, n |-> n]

\* strconv.ParseUint(s, 10, bits): no sign allowed
ParseUint(s, bits) ==
    IF ~IsDigits(s) THEN [ok |-> FALSE, n |-> 0]
    ELSE IF DigitsValue(s) > Pow2(bits) - 1 THEN [ok |-> FALSE, n |-> 0]
    ELSE [ok |-> TRUE, n |-> DigitsValue(s)]

\* strconv.Atoi(s): optional sign and decimal digits (the model's indexes are
\* far below the int range, so only the syntax can fail)
Atoi(s) ==
    LET signed == Len(s) >= 1 /\ s[1] \in {"+", "-"}
        body   == IF signed THEN Tail(s) ELSE s
        mag    == DigitsValue(body)
    IN  IF ~IsDigits(body) THEN [ok |-> FALSE, n |-> 0]
        ELSE [ok |-> TRUE, n |-> IF signed /\ s[1] = "-" THEN 0 - mag ELSE mag]

TrueLits == {<<"1">>, <<"t">>, <<"T">>, <<"T","R","U","E">>,
             <<"t","r","u","e">>, <<"T","r","u","e">>}

FalseLits == {<<"0">>, <<"f">>, <<"F">>, <<"F","A","L","S","E">>,
              <<"f","a","l","s","e">>, <<"F","a","l","s","e">>}

\* strconv.ParseBool
ParseBool(s) ==
    IF s \in TrueLits THEN [ok |-> TRUE, b |-> TRUE]
    ELSE IF s \in FalseLits THEN [ok |-> TRUE, b |-> FALSE]
    ELSE [ok |-> FALSE, b |-> FALSE]

----------------------------------------------------------------------------
\* The destination schema (what reflect reports about the destination type)
\*
\*   type T struct { B string; N int8 }
\*   type Config struct {
\*       AB string
\*       A  T
\*       T  string
\*       P  *Config              // self-referential
\*       L  []string
\*       S  []T
\*       Q  []*T
\*       R  []*int8
\*       m  map[string]string    // unexported
\*       I  *int8
\*   }

NoFields == <<>>

Descr(kind, name, elem, key, bits, fields) ==
    [kind |-> kind, name |-> name, elem |-> elem, key |-> key,
     bits |-> bits, fields |-> fields]

Fld(name, type) == [name |-> name, type |-> type]

ConfigFields ==
    << Fld(<<"A","B">>, "string"),
       Fld(<<"A">>, "T"),
       Fld(<<"T">>, "string"),
       Fld(<<"P">>, "*Config"),
       Fld(<<"L">>, "[]string"),
       Fld(<<"S">>, "[]T"),
       Fld(<<"Q">>, "[]*T"),
       Fld(<<"R">>, "[]*int8"),
       Fld(<<"m">>, "map[string]string"),
       Fld(<<"I">>, "*int8") >>

TFields == << Fld(<<"B">>, "string"), Fld(<<"N">>, "int8") >>

\* reflect.Type of each type of the schema: Kind(), Name() ("" for an unnamed composite type),
\* Elem(), Key(), Bits(), and the fields in declaration order
TypeDescr(t) ==
    CASE t = "Config" -> Descr("struct", <<"C","o","n","f","i","g">>, "", "", 0, ConfigFields)
      [] t = "T"      -> Descr("struct", <<"T">>, "", "", 0, TFields)
      [] t = "string" -> Descr("string", <<"s","t","r","i","n","g">>, "", "", 0, NoFields)
      [] t = "int8"   -> Descr("int", <<"i","n","t","8">>, "", "", 8, NoFields)
      [] t = "*Config" -> Descr("ptr", <<>>, "Config", "", 0, NoFields)
      [] t = "*T"      -> Descr("ptr", <<>>, "T", "", 0, NoFields)
      [] t = "*int8"   -> Descr("ptr", <<>>, "int8", "", 0, NoFields)
      [] t = "[]string" -> Descr("slice", <<>>, "string", "", 0, NoFields)
      [] t = "[]T"     -> Descr("slice", <<>>, "T", "", 0, NoFields)
      [] t = "[]*T"    -> Descr("slice", <<>>, "*T", "", 0, NoFields)
      [] t = "[]*int8" -> Descr("slice", <<>>, "*int8", "", 0, NoFields)
      [] t = "map[string]string" -> Descr("map", <<>>, "string", "string", 0, NoFields)

TypeIds == {"Config", "T", "string", "int8", "*Config", "*T", "*int8", "[]string",
            "[]T", "[]*T", "[]*int8", "map[string]string"}

Types == [t \in TypeIds |-> TypeDescr(t)]

TypeOf(t) == Types[t]

RootType == "Config"

\* A field is exported when its name starts with an upper-case letter.
Exported(field) == Len(field.name) >= 1 /\ field.name[1] \in UpperSet

----------------------------------------------------------------------------
\* Values.  A record value is the tuple of its fields' values; a pointer is <<>>
\* (nil) or <<pointee>>; a slice is [isNil, elems]; a mapping is [isNil, kv];
\* a string is its characters; an integer is itself.

NilPtr == <<>>

NilSlice == [isNil |-> TRUE, elems |-> <<>>]

NilMap == [isNil |-> TRUE, kv |-> <<>>]

RECURSIVE Zero(_)
\* reflect.Zero / the zero value of a freshly declared destination
Zero(t) ==
    LET ty == TypeOf(t)
    IN  CASE ty.kind = "struct" -> [i \in 1..Len(ty.fields) |-> Zero(ty.fields[i].type)]
          [] ty.kind = "string" -> <<>>
          [] ty.kind = "int"    -> 0
          [] ty.kind = "ptr"    -> NilPtr
          [] ty.kind = "slice"  -> NilSlice
          [] ty.kind = "map"    -> NilMap

\* Path selectors: a record's field, a pointer's referent, a slice's element,
\* a mapping's entry
SelField(i) == [k |-> "f", n |-> i, key |-> <<>>]

SelElem == [k |-> "p", n |-> 0, key |-> <<>>]

SelIndex(ix) == [k |-> "i", n |-> ix, key |-> <<>>]

SelKey(mapKey) == [k |-> "k", n |-> 0, key |-> mapKey]

RECURSIVE Get(_, _)
\* The value reached from v by path (reflect's Field, Elem, Index)
Get(v, path) ==
    IF Len(path) = 0 THEN v
    ELSE LET s == Head(path)
         IN  CASE s.k = "f" -> Get(v[s.n], Tail(path))
               [] s.k = "p" -> Get(v[1], Tail(path))
               [] s.k = "i" -> Get(v.elems[s.n + 1], Tail(path))
               [] s.k = "k" -> Get(v.kv[s.key], Tail(path))

RECURSIVE Put(_, _, _)
\* v with the value at path replaced by nv (reflect.Value.Set through the
\* addressable value obtained by Field, Elem, Index)
Put(v, path, nv) ==
    IF Len(path) = 0 THEN nv
    ELSE LET s == Head(path)
         IN  CASE s.k = "f" -> [v EXCEPT ![s.n] = Put(v[s.n], Tail(path), nv)]
               [] s.k = "p" -> <<Put(v[1], Tail(path), nv)>>
               [] s.k = "i" -> [v EXCEPT !.elems[s.n + 1] = Put(v.elems[s.n + 1], Tail(path), nv)]

----------------------------------------------------------------------------
\* Settability of a reflect.Value: flagAddr and flagRO

RootFlags == [addr |-> TRUE, ro |-> FALSE]

CanSet(fl) == fl.addr /\ ~fl.ro

\* v.Field(i): inherits addressability; read-only when reached through an
\* unexported field
FieldFlags(fl, field) == [addr |-> fl.addr, ro |-> fl.ro \/ ~Exported(field)]

\* v.Elem() of a pointer and v.Index(i) of a slice are always addressable
ElemFlags(fl) == [addr |-> TRUE, ro |-> fl.ro]

\* getFieldValue: the field as it is when settable, else re-derived with
\* reflect.NewAt when the enclosing record is addressable
getFieldValue(fl, field) ==
    IF CanSet(FieldFlags(fl, field)) THEN FieldFlags(fl, field)
    ELSE IF fl.addr THEN [addr |-> TRUE, ro |-> FALSE]
    ELSE FieldFlags(fl, field)

\* setWithReflect succeeds when the value is settable or addressable
setWithReflect(fl) == CanSet(fl) \/ fl.addr

----------------------------------------------------------------------------
\* setBasicValue, setMapValue

RECURSIVE setBasicValue(_, _, _, _)
\* setBasicValue(fieldVal, rawVal): the new value of fieldVal and whether it
\* returned nil.  On an error fieldVal keeps what was stored before the error
\* (an allocated pointee stays allocated).
setBasicValue(val, t, rawVal, fl) ==
    LET ty == TypeOf(t)
    IN  CASE ty.kind = "string" ->
               IF setWithReflect(fl) THEN [val |-> rawVal, ok |-> TRUE]
               ELSE [val |-> val, ok |-> FALSE]
          [] ty.kind = "bool" ->
               IF ParseBool(rawVal).ok /\ setWithReflect(fl)
               THEN [val |-> ParseBool(rawVal).b, ok |-> TRUE]
               ELSE [val |-> val, ok |-> FALSE]
          [] ty.kind = "int" ->
               IF ParseInt(rawVal, ty.bits).ok /\ setWithReflect(fl)
               THEN [val |-> ParseInt(rawVal, ty.bits).n, ok |-> TRUE]
               ELSE [val |-> val, ok |-> FALSE]
          [] ty.kind = "uint" ->
               IF ParseUint(rawVal, ty.bits).ok /\ setWithReflect(fl)
               THEN [val |-> ParseUint(rawVal, ty.bits).n, ok |-> TRUE]
               ELSE [val |-> val, ok |-> FALSE]
          [] ty.kind = "ptr" ->
               IF val = NilPtr /\ ~setWithReflect(fl)
               THEN [val |-> val, ok |-> FALSE]
               ELSE LET pointee == IF val = NilPtr THEN Zero(ty.elem) ELSE val[1]
                        inner   == setBasicValue(pointee, ty.elem, rawVal, ElemFlags(fl))
                    IN  [val |-> <<inner.val>>, ok |-> inner.ok]
          [] OTHER -> [val |-> val, ok |-> FALSE]

\* setMapValue(mapVal, mapKey, rawVal) on a non-nil mapping
setMapValue(mapVal, t, mapKey, rawVal, fl) ==
    LET ty  == TypeOf(t)
        tmp == setBasicValue(Zero(ty.elem), ty.elem, rawVal, RootFlags)
    IN  IF TypeOf(ty.key).kind # "string" THEN [val |-> mapVal, ok |-> FALSE]
        ELSE IF TypeOf(ty.elem).kind # "interface" /\ ~tmp.ok
             THEN [val |-> mapVal, ok |-> FALSE]
        ELSE IF ~(CanSet(fl) \/ fl.addr) THEN [val |-> mapVal, ok |-> FALSE]
        ELSE LET cv == IF TypeOf(ty.elem).kind = "interface" THEN rawVal ELSE tmp.val
             IN  [val |-> [mapVal EXCEPT !.kv = (mapKey :> cv) @@ mapVal.kv],
                  ok |-> TRUE]

----------------------------------------------------------------------------
\* assignValue: field resolution

SetMin(S) == CHOOSE x \in S : \A y \in S : x <= y

SetMax(S) == CHOOSE x \in S : \A y \in S : x >= y

\* line 73: the field is kept when its normalized name or the normalized name
\* of its type equals the normalized prefix
FieldMatches(field, normalizedPrefix) ==
    \/ normalize(field.name) = normalizedPrefix
    \/ normalize(TypeOf(field.type).name) = normalizedPrefix

\* A resolver that looks for a field matching by name first, and for a field
\* matching by type name only when there is none
FirstFieldNameFirst(fields, normalizedPrefix, i) ==
    LET byName == { j \in i..Len(fields) : normalize(fields[j].name) = normalizedPrefix }
        byType == { j \in i..Len(fields) :
                      normalize(TypeOf(fields[j].type).name) = normalizedPrefix }
    IN  IF byName # {} THEN SetMin(byName)
        ELSE IF byType # {} THEN SetMin(byType)
        ELSE 0

RECURSIVE FirstField(_, _, _)
\* the inner loop, from field i on: the first field kept, 0 when none is
FirstField(fields, normalizedPrefix, i) ==
    IF i > Len(fields) THEN 0
    ELSE IF FieldMatches(fields[i], normalizedPrefix) THEN i
    ELSE FirstField(fields, normalizedPrefix, i + 1)

NormalizedPrefix(parts, prefixLen) == normalize(Join(SubSeq(parts, 1, prefixLen)))

RECURSIVE FindMatchUp(_, _, _, _)
FindMatchUp(fields, parts, k, n) ==
    IF k > n THEN [len |-> 0, field |-> 0]
    ELSE LET i == FirstField(fields, NormalizedPrefix(parts, k), 1)
         IN  IF i # 0 THEN [len |-> k, field |-> i]
             ELSE FindMatchUp(fields, parts, k + 1, n)

\* An outer loop that tries the shortest prefix first
FindMatchShortestFirst(fields, parts, prefixLen) == FindMatchUp(fields, parts, 1, prefixLen)

RECURSIVE FindMatch(_, _, _)
\* the outer loop, from prefixLen down to 1: the first (prefixLen, field) at
\* which the inner loop stops; len = 0 and field = 0 when the loops run out
FindMatch(fields, parts, prefixLen) ==
    IF prefixLen < 1 THEN [len |-> 0, field |-> 0]
    ELSE LET i == FirstField(fields, NormalizedPrefix(parts, prefixLen), 1)
         IN  IF i # 0 THEN [len |-> prefixLen, field |-> i]
             ELSE FindMatch(fields, parts, prefixLen - 1)

----------------------------------------------------------------------------
\* assignValue: one invocation.  d is the destination, f the invocation's
\* frame: the record v (its path in d, its type, its flags), parts and rawVal.

\* lines 62-79: where the two loops stop for a record of type typ and parts
Match(typ, parts) ==
    IF TypeOf(typ).kind = "struct"
    THEN FindMatch(TypeOf(typ).fields, parts, Len(parts))
    ELSE [len |-> 0, field |-> 0]

\* The frame of an invocation.  m is where its loops will stop: it depends on
\* the type of v and on parts alone, and is worked out once, with the frame.
Frame(path, typ, parts, rawVal, fl) ==
    [path |-> path, typ |-> typ, parts |-> parts, rawVal |-> rawVal, fl |-> fl,
     m |-> Match(typ, parts)]

NoFrame == Frame(<<>>, RootType, <<>>, <<>>, RootFlags)

NoSlice == [valid |-> FALSE, path |-> <<>>, elemT |-> "string", idxStr |-> <<>>,
            ix |-> 0, indexed |-> FALSE, leaf |-> FALSE, old |-> NilSlice]

NoWrite == [valid |-> FALSE, loc |-> <<>>, val |-> <<>>]

\* What an invocation did: the destination after it, how it ended ("return",
\* "error", "panic", or "call" with the frame of the recursive call), the path
\* of the storage it worked on, the slice it indexed and the leaf it wrote.
Outcome(d, next, frame, touch, sl, wr) ==
    [dest |-> d, next |-> next, frame |-> frame, touch |-> touch, sl |-> sl, wr |-> wr]

Fields(f) == TypeOf(f.typ).fields

MatchedField(f, m) == Fields(f)[m.field]

\* line 79: leftover := parts[prefixLen:]
Leftover(f, m) == SubSeq(f.parts, m.len + 1, Len(f.parts))

FieldPath(f, m) == Append(f.path, SelField(m.field))

FieldFl(f, m) == getFieldValue(f.fl, MatchedField(f, m))

\* Which way an invocation goes
Branch(f, m) ==
    IF TypeOf(f.typ).kind # "struct" THEN "nonstruct"
    ELSE IF m.field = 0 THEN "nomatch"
    ELSE IF Len(Leftover(f, m)) = 0 THEN "leaf"
    ELSE IF TypeOf(MatchedField(f, m).type).kind \in {"ptr", "struct", "map", "slice"}
         THEN TypeOf(MatchedField(f, m).type).kind
    ELSE "default"

\* lines 82-84: no leftover, the field is the final one
LeafStep(d, f, m) ==
    LET r == setBasicValue(Get(d, FieldPath(f, m)), MatchedField(f, m).type, f.rawVal, FieldFl(f, m))
    IN  Outcome(Put(d, FieldPath(f, m), r.val),
                IF r.ok THEN "return" ELSE "error",
                NoFrame, FieldPath(f, m), NoSlice,
                IF r.ok THEN [valid |-> TRUE, loc |-> FieldPath(f, m), val |-> r.val]
                ELSE NoWrite)

\* A pointer descent that allocates a new pointee even when one exists
PtrStepRealloc(d, f, m) ==
    LET fp    == FieldPath(f, m)
        elemT == TypeOf(MatchedField(f, m).type).elem
        d1    == Put(d, fp, <<Zero(elemT)>>)
    IN  IF TypeOf(elemT).kind = "struct"
        THEN Outcome(d1, "call",
                     Frame(Append(fp, SelElem), elemT, Leftover(f, m), f.rawVal,
                           ElemFlags(FieldFl(f, m))),
                     Append(fp, SelElem), NoSlice, NoWrite)
        ELSE Outcome(d1, "error", NoFrame, fp, NoSlice, NoWrite)

\* A pointer descent that recurses with all of parts instead of the leftover
PtrStepSameParts(d, f, m) ==
    LET fp    == FieldPath(f, m)
        elemT == TypeOf(MatchedField(f, m).type).elem
        d1    == IF Get(d, fp) = NilPtr THEN Put(d, fp, <<Zero(elemT)>>) ELSE d
    IN  IF TypeOf(elemT).kind = "struct"
        THEN Outcome(d1, "call",
                     Frame(Append(fp, SelElem), elemT, f.parts, f.rawVal,
                           ElemFlags(FieldFl(f, m))),
                     Append(fp, SelElem), NoSlice, NoWrite)
        ELSE Outcome(d1, "error", NoFrame, fp, NoSlice, NoWrite)

\* lines 88-100: a pointer field
PtrStep(d, f, m) ==
    LET fp    == FieldPath(f, m)
        elemT == TypeOf(MatchedField(f, m).type).elem
        isNil == Get(d, fp) = NilPtr
        d1    == IF isNil THEN Put(d, fp, <<Zero(elemT)>>) ELSE d
    IN  IF isNil /\ ~setWithReflect(FieldFl(f, m))
        THEN Outcome(d, "error", NoFrame, fp, NoSlice, NoWrite)
        ELSE IF TypeOf(elemT).kind = "struct"
        THEN Outcome(d1, "call",
                     Frame(Append(fp, SelElem), elemT, Leftover(f, m), f.rawVal,
                           ElemFlags(FieldFl(f, m))),
                     Append(fp, SelElem), NoSlice, NoWrite)
        ELSE Outcome(d1, "error", NoFrame, fp, NoSlice, NoWrite)

\* lines 102-104: a nested record
StructStep(d, f, m) ==
    Outcome(d, "call",
            Frame(FieldPath(f, m), MatchedField(f, m).type, Leftover(f, m), f.rawVal, FieldFl(f, m)),
            FieldPath(f, m), NoSlice, NoWrite)

\* lines 106-118: a mapping
MapStep(d, f, m) ==
    LET fp     == FieldPath(f, m)
        mv     == Get(d, fp)
        m1     == IF mv.isNil THEN [isNil |-> FALSE, kv |-> <<>>] ELSE mv
        mapKey == Join(Leftover(f, m))
        r      == setMapValue(m1, MatchedField(f, m).type, mapKey, f.rawVal, FieldFl(f, m))
    IN  IF mv.isNil /\ ~setWithReflect(FieldFl(f, m))
        THEN Outcome(d, "error", NoFrame, fp, NoSlice, NoWrite)
        ELSE Outcome(Put(d, fp, r.val),
                     IF r.ok THEN "return" ELSE "error",
                     NoFrame, Append(fp, SelKey(mapKey)), NoSlice,
                     IF r.ok THEN [valid |-> TRUE, loc |-> Append(fp, SelKey(mapKey)),
                                   val |-> r.val.kv[mapKey]]
                     ELSE NoWrite)

\* A growth that drops the copy loop of lines 140-144
GrowNoCopy(sv, ix, elemT) ==
    IF ix >= Len(sv.elems)
    THEN [isNil |-> FALSE, elems |-> [j \in 1..(ix + 1) |-> Zero(elemT)]]
    ELSE sv

\* lines 135-148: the slice grown to hold index ix
Grow(sv, ix, elemT) ==
    IF ix >= Len(sv.elems)
    THEN [isNil |-> FALSE,
          elems |-> [j \in 1..(ix + 1) |->
                       IF j <= Len(sv.elems) THEN sv.elems[j] ELSE Zero(elemT)]]
    ELSE sv

\* lines 120-169: a slice
SliceStep(d, f, m) ==
    LET fp    == FieldPath(f, m)
        fl    == FieldFl(f, m)
        left  == Leftover(f, m)
        elemT == TypeOf(MatchedField(f, m).type).elem
        idx   == Atoi(left[1])
        ix    == idx.n
        sv    == Get(d, fp)
        s1    == IF sv.isNil THEN [isNil |-> FALSE, elems |-> <<>>] ELSE sv
        s2    == Grow(s1, ix, elemT)
        d2    == Put(d, fp, s2)
        ep    == Append(fp, SelIndex(ix))
        efl   == ElemFlags(fl)
        ev    == s2.elems[ix + 1]
        ek    == TypeOf(elemT).kind
        ev1   == IF ek = "ptr" /\ ev = NilPtr THEN <<Zero(TypeOf(elemT).elem)>> ELSE ev
        r     == setBasicValue(ev, elemT, f.rawVal, efl)
        sl(indexed, leaf) ==
            [valid |-> TRUE, path |-> fp, elemT |-> elemT, idxStr |-> left[1],
             ix |-> ix, indexed |-> indexed, leaf |-> leaf, old |-> sv]
    IN  IF ~idx.ok
        THEN Outcome(d, "error", NoFrame, fp, sl(FALSE, FALSE), NoWrite)
        ELSE IF (sv.isNil \/ ix >= Len(s1.elems)) /\ ~setWithReflect(fl)
        THEN Outcome(d, "error", NoFrame, fp, sl(FALSE, FALSE), NoWrite)
        ELSE IF ix < 0 \/ ix >= Len(s2.elems)
        THEN \* line 150: reflect's Index panics, index out of range
             Outcome(d2, "panic", NoFrame, fp, sl(FALSE, FALSE), NoWrite)
        ELSE IF Len(left) > 1
        THEN CASE ek = "ptr" ->
                    IF ev = NilPtr /\ ~setWithReflect(efl)
                    THEN Outcome(d2, "error", NoFrame, ep, sl(TRUE, FALSE), NoWrite)
                    ELSE Outcome(Put(d2, ep, ev1), "call",
                                 Frame(Append(ep, SelElem), TypeOf(elemT).elem, Tail(left),
                                       f.rawVal, ElemFlags(efl)),
                                 Append(ep, SelElem), sl(TRUE, FALSE), NoWrite)
               [] ek = "struct" ->
                    Outcome(d2, "call", Frame(ep, elemT, Tail(left), f.rawVal, efl),
                            ep, sl(TRUE, FALSE), NoWrite)
               [] OTHER ->
                    Outcome(d2, "error", NoFrame, ep, sl(TRUE, FALSE), NoWrite)
        ELSE Outcome(Put(d2, ep, r.val),
                     IF r.ok THEN "return" ELSE "error",
                     NoFrame, ep, sl(TRUE, TRUE),
                     IF r.ok THEN [valid |-> TRUE, loc |-> ep, val |-> r.val] ELSE NoWrite)

\* lines 171-173: any other kind with leftover segments
DefaultStep(d, f, m) == Outcome(d, "error", NoFrame, FieldPath(f, m), NoSlice, NoWrite)

\* lines 178-179: the loops ran out
NoMatchStep(d, f, m) == Outcome(d, "return", NoFrame, f.path, NoSlice, NoWrite)

\* line 59/66: typ.NumField() on a type that is no struct panics
NonStructStep(d, f, m) == Outcome(d, "panic", NoFrame, f.path, NoSlice, NoWrite)

----------------------------------------------------------------------------
\* The flat mappings decoded

Segs == { <<"A">>, <<"B">>, <<"T">>, <<"P">>, <<"L">>, <<"R">>, <<"X">>, <<>>,
          <<"0">>, <<"-","1">> }

Vals == { <<"x">>, <<"7">> }

\* every non-empty key of 1..MaxSegs segments
SingleKeys == UNION { { Join(p) : p \in [1..m -> Segs] } : m \in 1..MaxSegs } \ {<<>>}

K1(a) == Join(<<a>>)

K2(a, b) == Join(<<a, b>>)

K3(a, b, c) == Join(<<a, b, c>>)

\* keys decoded together, several of them resolving to shared storage
KeyCatalogue ==
    { K2(<<"A">>, <<"B">>), K3(<<"A">>, <<>>, <<"B">>),
      K3(<<"P">>, <<"A">>, <<"B">>), K2(<<"P">>, <<"I">>), K2(<<"P">>, <<"X">>),
      K2(<<"L">>, <<"0">>), K2(<<"L">>, <<"2">>), K2(<<"l">>, <<"2">>),
      K3(<<"S">>, <<"0">>, <<"B">>), K3(<<"S">>, <<"2">>, <<"N">>),
      K3(<<"Q">>, <<"0">>, <<"B">>), K2(<<"R">>, <<"0">>),
      K2(<<"M">>, <<"a">>), K3(<<"M">>, <<"A">>, <<"b">>),
      K1(<<"I">>), K2(<<"I">>, <<"X">>) }

RECURSIVE KeySetsUpTo(_)
\* the subsets of KeyCatalogue of at most n keys
KeySetsUpTo(n) ==
    IF n = 0 THEN {{}}
    ELSE KeySetsUpTo(n - 1) \cup
         { K \cup {k} : K \in KeySetsUpTo(n - 1), k \in KeyCatalogue }

KeySets == { {k} : k \in SingleKeys } \cup KeySetsUpTo(MaxKeys)

----------------------------------------------------------------------------
\* State

VARIABLES
    flatMap,   \* the mapping godotenv.UnmarshalBytes returned
    todo,      \* the keys the range loop has not yet visited
    dest,      \* the destination record *v
    pc,        \* "range": in the loop of Unmarshal, between keys;
               \* "assign": an assignValue invocation is about to run;
               \* "done": Unmarshal returned nil; "error": it returned an error;
               \* "panic": the goroutine panicked
    cur,       \* the frame of the assignValue invocation about to run
    key,       \* the raw key being processed (the last one, between keys)
    calls,     \* assignValue invocations made for the current key
    res,       \* the resolution made by the last invocation on a record
    outcome,   \* how the last key ended
    slEvt,     \* the last descent into a slice field, for the current key
    idxLog,    \* the slice elements indexed so far (line 150), in order
    written,   \* the leaf locations written so far, with the value written
    before,    \* the destination as it was when the current key was taken
    touch      \* the path of the storage the current key has resolved to

vars == <<flatMap, todo, dest, pc, cur, key, calls, res, outcome, slEvt, idxLog,
          written, before, touch>>

NoRes == [path |-> <<>>, typ |-> RootType, parts |-> <<>>, len |-> 0, field |-> 0]

Init ==
    /\ \E K \in KeySets : flatMap \in [K -> Vals]
    /\ todo = DOMAIN flatMap
    /\ dest = Zero(RootType)
    /\ pc = "range"
    /\ cur = NoFrame
    /\ key = <<>>
    /\ calls = 0
    /\ res = NoRes
    /\ outcome = "none"
    /\ slEvt = NoSlice
    /\ idxLog = <<>>
    /\ written = <<>>
    /\ before = Zero(RootType)
    /\ touch = <<>>

----------------------------------------------------------------------------
\* Decoder.Unmarshal, lines 44-54

\* The loop takes a key not yet visited, in any order, splits it and calls
\* assignValue on the destination record.
RangeNext ==
    /\ pc = "range"
    /\ \E rawKey \in todo :
         /\ todo' = todo \ {rawKey}
         /\ key' = rawKey
         /\ IF Len(Split(rawKey)) = 0
            THEN /\ pc' = "range"
                 /\ cur' = NoFrame
                 /\ calls' = 0
            ELSE /\ pc' = "assign"
                 /\ cur' = Frame(<<>>, RootType, Split(rawKey), flatMap[rawKey], RootFlags)
                 /\ calls' = 1
    /\ before' = dest
    /\ touch' = <<>>
    /\ slEvt' = NoSlice
    /\ res' = NoRes
    /\ outcome' = "running"
    /\ UNCHANGED <<flatMap, dest, idxLog, written>>

\* The loop is over: Unmarshal returns nil.
RangeDone ==
    /\ pc = "range"
    /\ todo = {}
    /\ pc' = "done"
    /\ UNCHANGED <<flatMap, todo, dest, cur, key, calls, res, outcome, slEvt, idxLog,
                   written, before, touch>>

----------------------------------------------------------------------------
\* assignValue, lines 58-180: one action per way an invocation goes

\* The state after an invocation that did r.  A returned error makes Unmarshal
\* return it at once (line 50); nil lets the loop go on.
Finish(r, m, ended) ==
    /\ dest' = r.dest
    /\ pc' = CASE r.next = "call"   -> "assign"
               [] r.next = "return" -> "range"
               [] r.next = "error"  -> "error"
               [] r.next = "panic"  -> "panic"
    /\ cur' = r.frame
    /\ calls' = IF r.next = "call" THEN calls + 1 ELSE calls
    /\ res' = IF TypeOf(cur.typ).kind = "struct"
              THEN [path |-> cur.path, typ |-> cur.typ, parts |-> cur.parts,
                    len |-> m.len, field |-> m.field]
              ELSE res
    /\ outcome' = IF r.next = "call" THEN outcome
                  ELSE IF r.next = "return" THEN ended
                  ELSE r.next
    /\ slEvt' = IF r.sl.valid THEN r.sl ELSE slEvt
    /\ idxLog' = IF r.sl.valid /\ r.sl.indexed
                 THEN Append(idxLog, [path |-> r.sl.path, elemT |-> r.sl.elemT,
                                      ix |-> r.sl.ix, leaf |-> r.sl.leaf,
                                      raw |-> cur.rawVal])
                 ELSE idxLog
    /\ written' = IF r.wr.valid THEN (r.wr.loc :> r.wr.val) @@ written ELSE written
    /\ touch' = r.touch
    /\ UNCHANGED <<flatMap, todo, key, before>>

AssignNonStruct ==
    /\ pc = "assign"
    /\ LET m == cur.m
       IN  /\ Branch(cur, m) = "nonstruct"
           /\ Finish(NonStructStep(dest, cur, m), m, "panic")

AssignNoMatch ==
    /\ pc = "assign"
    /\ LET m == cur.m
       IN  /\ Branch(cur, m) = "nomatch"
           /\ Finish(NoMatchStep(dest, cur, m), m, "nomatch")

AssignLeaf ==
    /\ pc = "assign"
    /\ LET m == cur.m
       IN  /\ Branch(cur, m) = "leaf"
           /\ Finish(LeafStep(dest, cur, m), m, "set")

AssignPtr ==
    /\ pc = "assign"
    /\ LET m == cur.m
       IN  /\ Branch(cur, m) = "ptr"
           /\ Finish(PtrStep(dest, cur, m), m, "set")

AssignStruct ==
    /\ pc = "assign"
    /\ LET m == cur.m
       IN  /\ Branch(cur, m) = "struct"
           /\ Finish(StructStep(dest, cur, m), m, "set")

AssignMap ==
    /\ pc = "assign"
    /\ LET m == cur.m
       IN  /\ Branch(cur, m) = "map"
           /\ Finish(MapStep(dest, cur, m), m, "set")

AssignSlice ==
    /\ pc = "assign"
    /\ LET m == cur.m
       IN  /\ Branch(cur, m) = "slice"
           /\ Finish(SliceStep(dest, cur, m), m, "set")

AssignDefault ==
    /\ pc = "assign"
    /\ LET m == cur.m
       IN  /\ Branch(cur, m) = "default"
           /\ Finish(DefaultStep(dest, cur, m), m, "set")

Next ==
    \/ RangeNext
    \/ RangeDone
    \/ AssignNonStruct
    \/ AssignNoMatch
    \/ AssignLeaf
    \/ AssignPtr
    \/ AssignStruct
    \/ AssignMap
    \/ AssignSlice
    \/ AssignDefault

Spec == Init /\ [][Next]_vars

----------------------------------------------------------------------------
\* Unmarshal as a function of the order in which the range loop visits the keys

\* one invocation of assignValue
StepOf(d, f) ==
    LET b == Branch(f, f.m)
    IN  CASE b = "nonstruct" -> NonStructStep(d, f, f.m)
          [] b = "nomatch"   -> NoMatchStep(d, f, f.m)
          [] b = "leaf"      -> LeafStep(d, f, f.m)
          [] b = "ptr"       -> PtrStep(d, f, f.m)
          [] b = "struct"    -> StructStep(d, f, f.m)
          [] b = "map"       -> MapStep(d, f, f.m)
          [] b = "slice"     -> SliceStep(d, f, f.m)
          [] b = "default"   -> DefaultStep(d, f, f.m)

RECURSIVE assignValue(_, _)
\* assignValue(v, parts, rawVal) with its recursive calls: the destination
\* after it and how it ended ("return", "error" or "panic")
assignValue(d, f) ==
    LET r == StepOf(d, f)
    IN  IF r.next = "call" THEN assignValue(r.dest, r.frame)
        ELSE [dest |-> r.dest, next |-> r.next]

RECURSIVE UnmarshalInOrder(_, _, _)
\* lines 44-54 with the keys visited in the order given
UnmarshalInOrder(fm, d, order) ==
    IF Len(order) = 0 THEN [dest |-> d, pc |-> "done"]
    ELSE LET r == assignValue(d, Frame(<<>>, RootType, Split(Head(order)),
                                       fm[Head(order)], RootFlags))
         IN  IF r.next = "return" THEN UnmarshalInOrder(fm, r.dest, Tail(order))
             ELSE [dest |-> r.dest, pc |-> r.next]

\* the orders in which a range over the mapping can visit its keys
Orders(K) ==
    { o \in [1..Cardinality(K) -> K] : \A i, j \in 1..Cardinality(K) : o[i] = o[j] => i = j }

----------------------------------------------------------------------------
\* Claims

IsPrefix(p, q) == Len(p) <= Len(q) /\ SubSeq(q, 1, Len(p)) = p

\* the prefix lengths at which some field of the record matches, and the
\* fields matching at one length
MatchLens(fields, parts) ==
    { k \in 1..Len(parts) :
        \E i \in 1..Len(fields) : FieldMatches(fields[i], NormalizedPrefix(parts, k)) }

MatchFields(fields, parts, k) ==
    { i \in 1..Len(fields) : FieldMatches(fields[i], NormalizedPrefix(parts, k)) }

\* C1: an invocation on a record selects the greatest prefix length at which
\* some field matches and, at that length, the first matching field in
\* declaration order; the key goes to that field with the segments after the
\* prefix, and however the invocation ends the record is not searched again:
\* it ends the key (nil, error, panic) or recurses strictly inside the field.
C1_LongestPrefixFirstField ==
    [][ (pc = "assign" /\ TypeOf(cur.typ).kind = "struct") =>
          LET fields == TypeOf(cur.typ).fields
              lens   == MatchLens(fields, cur.parts)
          IN  IF lens = {}
              THEN res'.field = 0 /\ pc' = "range" /\ outcome' = "nomatch"
              ELSE LET L  == SetMax(lens)
                       F  == SetMin(MatchFields(fields, cur.parts, L))
                       lo == SubSeq(cur.parts, L + 1, Len(cur.parts))
                       fp == Append(cur.path, SelField(F))
                   IN  /\ res'.path = cur.path /\ res'.len = L /\ res'.field = F
                       /\ IsPrefix(fp, touch')
                       /\ pc' \in {"assign", "range", "error", "panic"}
                       /\ pc' = "assign" =>
                            /\ IsPrefix(fp, cur'.path)
                            /\ cur'.parts \in {lo, Tail(lo)}
                            /\ cur'.rawVal = cur.rawVal
                            /\ key' = key
       ]_vars

\* C1 witness: a key went to the field matching its longest prefix and ended
\* in an error there, while a shorter prefix of it matches another field
C1_Witness ==
    /\ pc = "error"
    /\ res.path = <<>>
    /\ res.field # 0
    /\ \E k \in 1..(res.len - 1) :
         \E i \in MatchFields(TypeOf(res.typ).fields, res.parts, k) : i # res.field

\* C2 (as claimed): the field chosen for a candidate prefix is the first one
\* matching by name, and the first one matching by type name only when no
\* field matches by name
C2_NameBeforeTypeName ==
    res.field # 0 =>
        res.field = FirstFieldNameFirst(TypeOf(res.typ).fields,
                                        NormalizedPrefix(res.parts, res.len), 1)

\* C2 (amended): the field chosen for a candidate prefix is the first field in
\* declaration order whose normalized name or normalized type name equals the
\* candidate, whichever of the two it is
C2_FirstByNameOrTypeName ==
    res.field # 0 =>
        LET fields == TypeOf(res.typ).fields
            np     == NormalizedPrefix(res.parts, res.len)
            hit(j) == \/ normalize(fields[j].name) = np
                      \/ normalize(TypeOf(fields[j].type).name) = np
        IN  /\ hit(res.field)
            /\ \A j \in 1..(res.field - 1) : ~hit(j)

\* C2 witness: the chosen field matches by its type name only, and a field
\* declared after it matches by name
C2_Witness ==
    /\ res.field # 0
    /\ LET fields == TypeOf(res.typ).fields
           np     == NormalizedPrefix(res.parts, res.len)
       IN  /\ normalize(fields[res.field].name) # np
           /\ normalize(TypeOf(fields[res.field].type).name) = np
           /\ \E j \in (res.field + 1)..Len(fields) : normalize(fields[j].name) = np

\* C3: a key that ends with no field matching, at the top or in a nested
\* record, leaves the destination as it was before the key
C3_UnknownKeyLeavesDestination ==
    outcome = "nomatch" => (pc # "error" /\ dest = before)

\* C4: Unmarshal ends the same way, with the same destination, whatever the
\* order in which the keys are visited
C4_OrderIndependent ==
    pc \in {"done", "error", "panic"} =>
        \A o \in Orders(DOMAIN flatMap) :
            UnmarshalInOrder(flatMap, Zero(RootType), o) = [dest |-> dest, pc |-> pc]

RECURSIVE Coerced(_, _)
\* the value a slice element of type t holds after rawVal was assigned to it
Coerced(t, rawVal) ==
    CASE TypeOf(t).kind = "string" -> rawVal
      [] TypeOf(t).kind = "int"    -> ParseInt(rawVal, TypeOf(t).bits).n
      [] TypeOf(t).kind = "ptr"    -> <<Coerced(TypeOf(t).elem, rawVal)>>

LogOf(sp) == { i \in 1..Len(idxLog) : idxLog[i].path = sp }

\* C5: between keys, a slice that was indexed is as long as 1 + the largest
\* index addressed, holds at each index assigned the value of the last key
\* that assigned it and the zero value at each index never addressed; and one
\* descent with index ix into a slice of length L leaves L elements when
\* ix < L, ix+1 when not, the elements 0..L-1 other than ix as they were
C5_SequenceGrowth ==
    /\ pc \in {"range", "done"} =>
         \A n \in 1..Len(idxLog) :
            LET sp        == idxLog[n].path
                sv        == Get(dest, sp)
                addressed == { idxLog[i].ix : i \in LogOf(sp) }
                writes(j) == { i \in LogOf(sp) : idxLog[i].ix = j /\ idxLog[i].leaf }
            IN  /\ ~sv.isNil
                /\ Len(sv.elems) = 1 + SetMax(addressed)
                /\ \A j \in 0..(Len(sv.elems) - 1) :
                     /\ j \notin addressed => sv.elems[j + 1] = Zero(idxLog[n].elemT)
                     /\ writes(j) # {} =>
                          sv.elems[j + 1] =
                              Coerced(idxLog[n].elemT, idxLog[SetMax(writes(j))].raw)
    /\ (slEvt.valid /\ slEvt.indexed) =>
         LET L   == Len(slEvt.old.elems)
             new == Get(dest, slEvt.path).elems
         IN  /\ Len(new) = IF slEvt.ix < L THEN L ELSE slEvt.ix + 1
             /\ \A j \in 1..L : j # slEvt.ix + 1 => new[j] = slEvt.old.elems[j]

\* C5 witness: two keys assigned different values to index 2 of one slice
\* which nothing else indexed
C5_Witness ==
    /\ pc = "done"
    /\ Len(idxLog) = 2
    /\ idxLog[1].path = idxLog[2].path
    /\ idxLog[1].ix = 2 /\ idxLog[2].ix = 2
    /\ idxLog[1].leaf /\ idxLog[2].leaf
    /\ idxLog[1].raw # idxLog[2].raw

\* C6: a descent into a slice with a first leftover segment that is no
\* non-negative integer ends the key with an error returned to the caller
C6_BadIndexIsAnError ==
    (slEvt.valid /\ ~IsDigits(slEvt.idxStr)) => pc = "error"

\* C7: assignValue is only ever invoked on a record: a slice element that is a
\* pointer to a non-record ends the key with an error instead
C7_DescendsIntoRecordsOnly ==
    /\ pc = "assign" => TypeOf(cur.typ).kind = "struct"
    /\ (slEvt.valid /\ slEvt.indexed /\ ~slEvt.leaf /\ pc # "assign"
          /\ TypeOf(slEvt.elemT).kind = "ptr"
          /\ TypeOf(TypeOf(slEvt.elemT).elem).kind # "struct") => pc = "error"

RECURSIVE SameOutside(_, _, _, _)
\* new differs from old (both of type t) only along path: what lies beside the
\* path is as in old, and storage the path goes through that old did not have
\* is zero-valued beside the path
SameOutside(new, old, t, path) ==
    IF Len(path) = 0 THEN TRUE
    ELSE LET s  == Head(path)
             ty == TypeOf(t)
         IN  CASE s.k = "f" ->
                    /\ \A j \in 1..Len(ty.fields) : j # s.n => new[j] = old[j]
                    /\ SameOutside(new[s.n], old[s.n], ty.fields[s.n].type, Tail(path))
               [] s.k = "p" ->
                    /\ new # NilPtr
                    /\ SameOutside(new[1], IF old = NilPtr THEN Zero(ty.elem) ELSE old[1],
                                   ty.elem, Tail(path))
               [] s.k = "i" ->
                    /\ ~new.isNil
                    /\ Len(new.elems) >= Len(old.elems)
                    /\ s.n + 1 \in 1..Len(new.elems)
                    /\ \A j \in 1..Len(new.elems) :
                         LET was == IF j <= Len(old.elems) THEN old.elems[j]
                                    ELSE Zero(ty.elem)
                         IN  IF j = s.n + 1
                             THEN SameOutside(new.elems[j], was, ty.elem, Tail(path))
                             ELSE new.elems[j] = was
               [] s.k = "k" ->
                    /\ ~new.isNil
                    /\ DOMAIN new.kv \subseteq (DOMAIN old.kv \cup {s.key})
                    /\ \A k \in DOMAIN old.kv :
                         k # s.key => (k \in DOMAIN new.kv /\ new.kv[k] = old.kv[k])

\* C8: while and after a key is processed the destination differs from what
\* it was before the key only along the path resolved for the key (an existing
\* pointee, mapping entry or slice element beside the path is kept), and every
\* leaf written by a successful key holds the value last written to it
C8_FrameOfOneKey ==
    /\ SameOutside(dest, before, RootType, touch)
    /\ \A loc \in DOMAIN written : Get(dest, loc) = written[loc]

\* C8 witness: two keys wrote two leaves through the same pointer field
C8_Witness ==
    /\ pc = "done"
    /\ Cardinality(DOMAIN written) = 2
    /\ \A loc \in DOMAIN written :
         Len(loc) = 3 /\ loc[1] = SelField(4) /\ loc[2] = SelElem
    /\ Get(before, <<SelField(4)>>) # NilPtr

\* C9: each recursive call has strictly fewer segments than its caller and at
\* least one, and a key of n segments makes at most n calls
C9_FewerSegmentsEachCall ==
    [][ pc' = "assign" =>
          /\ Len(cur'.parts) >= 1
          /\ calls' <= Len(Split(key'))
          /\ Len(cur'.parts) <= Len(Split(key')) - calls' + 1
          /\ pc = "assign" => (Len(cur'.parts) < Len(cur.parts) /\ calls' = calls + 1)
       ]_vars

\* C9 witness: the third call for a key, on the record type the first call
\* was on, reached through two pointers of the self-referential schema
C9_Witness ==
    /\ pc = "assign"
    /\ calls = 3
    /\ cur.typ = RootType
    /\ cur.path = <<SelField(4), SelElem, SelField(4), SelElem>>

\* C10: a field is selected only through a prefix whose normalized form is
\* not the empty string
C10_NonEmptyMatch ==
    res.field # 0 => NormalizedPrefix(res.parts, res.len) # <<>>

====
